---- MODULE Spec2Model ----
(***************************************************************************)
(* Model of package binary (matthew-burr/trees): an unbalanced binary      *)
(* search tree of values that satisfy Interface (Compare/Value/Update).    *)
(* The heap is modelled explicitly: Nodes and Interface implementations    *)
(* are objects with identity, because Insert re-inserts a *Node as an      *)
(* Interface and removeNode copies Interface pointers between Nodes.       *)
(***************************************************************************)
EXTENDS Integers, Sequences, FiniteSets, TLC

VARIABLES root, nodes, impls, last

vars == <<root, nodes, impls, last>>

(***************************************************************************)
(* Bounds of the model.                                                    *)
(***************************************************************************)
\* Number of Node objects that may be live (reachable) at once.
MaxNodes == 3
\* Number of Node objects in the heap of the tree of Int items.
MaxOrdered == 5
\* Keys handed to Insert/Remove/Contains/Get are 0..MaxKey; no stored key
\* may exceed MaxKey (an incrementing updater would grow keys for ever).
MaxKey == 3
\* Depth of the t.Insert(cur) recursion the model follows.
MaxDepth == 6
\* Width in bits of Go's int in the model (two's complement).
IntBits == 4

(***************************************************************************)
(* interface.go: comparison results.                                       *)
(***************************************************************************)
LT == -1
EQ == 0
GT == 1

\* part_000: traversal signals.
Done == TRUE
Continue == FALSE

NodeIds == 1..MaxNodes
ImplIds == 1..(MaxNodes + 1)
Keys == 0..MaxKey

\* The machine integers, and the wrap-around of Go's int arithmetic.
MinInt == -(2 ^ (IntBits - 1))
MaxInt == 2 ^ (IntBits - 1) - 1
Ints == MinInt..MaxInt
Wrap(x) == ((x - MinInt) % (2 ^ IntBits)) + MinInt

\* A nil pointer / nil interface.
Nil == 0
NilRef == [t |-> "nil", id |-> 0]
\* An Interface value holding a pointer: to an implementation object or,
\* after t.Insert(cur), to a *Node.
ImplRef(i) == [t |-> "impl", id |-> i]
NodeRef(n) == [t |-> "node", id |-> n]

\* type Node struct { left, right *Node; value Interface }
NoNode == [left |-> Nil, right |-> Nil, value |-> NilRef]
Node(v) == [left |-> Nil, right |-> Nil, value |-> v]

\* Implementations of Interface the callers hand to the tree.
\*   typ "generic": *InterfaceImpl built by Generic(value, comparer, upd)
\*                  with comparer = this - to (as Int and the tests use);
\*   typ "custom" : a caller's own Interface whose Compare returns the raw
\*                  difference this - to and whose Update does nothing.
\* upd is the UpdateFunc: "nil" (none) or "inc" (this + 1, the updater of
\* TestTreeInsert_ChainOfUpdates, which changes the key on every call).
NoImpl == [typ |-> "none", value |-> 0, upd |-> "nil"]
InterfaceImpl(v, u) == [typ |-> "generic", value |-> v, upd |-> u]
Custom(v) == [typ |-> "custom", value |-> v, upd |-> "nil"]

\* Generic without the test of the comparer.
Generic_NoCheck(value, comparer, updater) ==
    [panic |-> FALSE, impl |-> InterfaceImpl(value, updater)]

\* func Generic(value, comparer, updater): panics on a nil comparer.
Generic(value, comparer, updater) ==
    IF comparer = "nil"
    THEN [panic |-> TRUE, impl |-> NoImpl]
    ELSE [panic |-> FALSE, impl |-> InterfaceImpl(value, updater)]

\* func Int(value int) (Int names the integers here): Generic(value, this - to, nil).
IntItem(value) == Generic(value, "sub", "nil").impl

\* The items a caller may pass to Insert.
Kinds == {"int", "inc", "custom"}
Item(kind, k) ==
    CASE kind = "int" -> IntItem(k)
      [] kind = "inc" -> Generic(k, "sub", "inc").impl
      [] OTHER -> Custom(k)

\* The heap of one Tree: t.root and every object reachable from it.
Heap(r, ns, is) == [root |-> r, nodes |-> ns, impls |-> is]

\* Normalisation of a Compare result to LT / EQ / GT
\* (the switch in InterfaceImpl.Compare and Node.Compare).
Sign(result) ==
    IF result < EQ THEN LT ELSE IF result > EQ THEN GT ELSE EQ

\* The comparer of Int and of the tests: this.(int) - to.(int).
CompareFunc(this, to) == Wrap(this - to)

\* The UpdateFunc of an implementation applied to (this, with).
UpdateFunc(u, this, with) ==
    IF u = "inc" THEN Wrap(this + 1) ELSE this

(***************************************************************************)
(* Dynamic dispatch of Interface on a reference: *InterfaceImpl, a custom  *)
(* implementation, or *Node (which delegates to its own value).            *)
(***************************************************************************)
RECURSIVE Value(_, _)
Value(h, ref) ==
    IF ref.t = "node"
    THEN Value(h, h.nodes[ref.id].value)
    ELSE h.impls[ref.id].value

RECURSIVE Compare(_, _, _)
Compare(h, ref, to) ==
    IF ref.t = "node"
    THEN Sign(Compare(h, h.nodes[ref.id].value, to))
    ELSE IF h.impls[ref.id].typ = "generic"
         THEN Sign(CompareFunc(h.impls[ref.id].value, to))
         ELSE CompareFunc(h.impls[ref.id].value, to)

\* The implementation object at the end of a reference's delegation chain.
RECURSIVE Target(_, _)
Target(h, ref) ==
    IF ref.t = "node" THEN Target(h, h.nodes[ref.id].value) ELSE ref.id

\* InterfaceImpl.Update: no-op without an updater, else value = upd(value, with).
ImplUpdate(c, with) ==
    IF c.upd = "nil" THEN c
    ELSE [c EXCEPT !.value = UpdateFunc(c.upd, c.value, with)]

\* Update through a reference; returns the heap after the call.
Update(h, ref, with) ==
    LET i == Target(h, ref)
    IN  [h EXCEPT !.impls[i] = ImplUpdate(h.impls[i], with)]

\* Node.Value / Node.Compare / Node.Update of the Node n.
NodeValue(h, n) == Value(h, NodeRef(n))
NodeCompare(h, n, to) == Compare(h, NodeRef(n), to)
NodeUpdate(h, n, with) == Update(h, NodeRef(n), with)

(***************************************************************************)
(* Tree.findNodeAndParent: the walk from the root.                         *)
(***************************************************************************)
RECURSIVE findLoop(_, _, _, _)
findLoop(h, item, node, parent) ==
    IF node = Nil
    THEN [found |-> FALSE, node |-> node, parent |-> parent]
    ELSE LET result == Compare(h, item, NodeValue(h, node))
         IN  IF result < EQ THEN findLoop(h, item, h.nodes[node].left, node)
             ELSE IF result > EQ THEN findLoop(h, item, h.nodes[node].right, node)
             ELSE [found |-> TRUE, node |-> node, parent |-> parent]

findNodeAndParent(h, item) == findLoop(h, item, h.root, Nil)

(***************************************************************************)
(* Tree.removeNode(node, parent).                                          *)
(***************************************************************************)
\* The walk "for succ.left != nil { parent = succ; succ = succ.left }".
RECURSIVE succLoop(_, _, _)
succLoop(h, succ, parent) ==
    IF h.nodes[succ].left # Nil
    THEN succLoop(h, h.nodes[succ].left, succ)
    ELSE [succ |-> succ, parent |-> parent]

\* A splice that stores the subtree in both links of the parent.
splice_BothLinks(h, node, parent) ==
    LET subtree == IF h.nodes[node].left # Nil
                   THEN h.nodes[node].left ELSE h.nodes[node].right
    IN  IF parent = Nil THEN [h EXCEPT !.root = subtree]
        ELSE [h EXCEPT !.nodes[parent].left = subtree,
                       !.nodes[parent].right = subtree]

\* The splice of a node with at most one child out of its parent's slot.
splice(h, node, parent) ==
    LET subtree == IF h.nodes[node].left # Nil
                   THEN h.nodes[node].left ELSE h.nodes[node].right
    IN  IF parent = Nil THEN [h EXCEPT !.root = subtree]
        ELSE IF h.nodes[parent].left = node
             THEN [h EXCEPT !.nodes[parent].left = subtree]
             ELSE [h EXCEPT !.nodes[parent].right = subtree]

\* The Nodes linked below n through left/right, in LVR order.
RECURSIVE InOrderNodes(_, _, _)
InOrderNodes(h, n, fuel) ==
    IF n = Nil \/ fuel = 0 THEN <<>>
    ELSE InOrderNodes(h, h.nodes[n].left, fuel - 1) \o <<n>>
         \o InOrderNodes(h, h.nodes[n].right, fuel - 1)

TreeNodes(h) == InOrderNodes(h, h.root, Len(h.nodes) + 1)

\* removeNode that leaves the tree as it is.
removeNode_KeepsNode(h, node, parent) == h

\* removeNode that splices the successor out without handing its right
\* child to the successor's parent.
removeNode_DropsRightChild(h, node, parent) ==
    IF h.nodes[node].left # Nil /\ h.nodes[node].right # Nil
    THEN LET s == succLoop(h, h.nodes[node].right, node)
             h1 == [h EXCEPT !.nodes[node].value = h.nodes[s.succ].value,
                             !.nodes[s.succ].right = Nil]
         IN  splice(h1, s.succ, s.parent)
    ELSE splice(h, node, parent)

removeNode(h, node, parent) ==
    IF h.nodes[node].left # Nil /\ h.nodes[node].right # Nil
    THEN LET s == succLoop(h, h.nodes[node].right, node)
             h1 == [h EXCEPT !.nodes[node].value = h.nodes[s.succ].value]
         IN  splice(h1, s.succ, s.parent)
    ELSE splice(h, node, parent)

\* Remove that takes the root Node out when the search finds nothing.
Remove_RootWhenAbsent(h, item) ==
    LET f == findNodeAndParent(h, item)
    IN  IF f.found THEN removeNode(h, f.node, f.parent)
        ELSE IF h.root = Nil THEN h ELSE removeNode(h, h.root, Nil)

\* Tree.Remove(item).
Remove(h, item) ==
    LET f == findNodeAndParent(h, item)
    IN  IF ~f.found THEN h ELSE removeNode(h, f.node, f.parent)

(***************************************************************************)
(* Tree.Insert(item).                                                      *)
(***************************************************************************)
\* &Node{...}: the address of a fresh Node (Nil when the model has none left).
FreeNodes(h) == {n \in DOMAIN h.nodes : h.nodes[n] = NoNode}
NewNode(h) ==
    IF FreeNodes(h) = {} THEN Nil
    ELSE CHOOSE n \in FreeNodes(h) : \A m \in FreeNodes(h) : n <= m

\* The tail of Insert: attach a new Node holding item below parent.
attach(h, item, parent) ==
    LET cur == NewNode(h)
        h1 == [h EXCEPT !.nodes[cur] = Node(item)]
    IN  IF parent = Nil THEN [h1 EXCEPT !.root = cur]
        ELSE IF Compare(h, item, NodeValue(h, parent)) = LT
             THEN [h1 EXCEPT !.nodes[parent].left = cur]
             ELSE [h1 EXCEPT !.nodes[parent].right = cur]

\* "changed := cur.Compare(before) != EQ", after the Update.
changed_Always(h, cur, before) == TRUE

changed(h, cur, before) == NodeCompare(h, cur, before) # EQ

\* Insert returns the heap, the Update calls made ([node, with] each), the
\* number of nested Insert calls, whether the model's bounds were hit, and
\* the number of Nodes linked in the tree at the start of each nested call.
RECURSIVE InsertRec(_, _, _, _)
InsertRec(h, item, updates, depth) ==
    LET f == findNodeAndParent(h, item)
        n == Len(TreeNodes(h))
    IN  IF depth > MaxDepth
        THEN [heap |-> h, updates |-> updates, calls |-> depth, cut |-> TRUE,
              linked |-> <<n>>]
        ELSE IF f.found
        THEN LET cur == f.node
                 before == NodeValue(h, cur)
                 with == Value(h, item)
                 h1 == NodeUpdate(h, cur, with)
                 ups == Append(updates, [node |-> cur, with |-> with])
             IN  IF changed(h1, cur, before)
                 THEN LET r == InsertRec(removeNode(h1, cur, f.parent),
                                         NodeRef(cur), ups, depth + 1)
                      IN  [r EXCEPT !.linked = <<n>> \o r.linked]
                 ELSE [heap |-> h1, updates |-> ups, calls |-> depth,
                       cut |-> FALSE, linked |-> <<n>>]
        ELSE IF NewNode(h) = Nil
             THEN [heap |-> h, updates |-> updates, calls |-> depth,
                   cut |-> TRUE, linked |-> <<n>>]
             ELSE [heap |-> attach(h, item, f.parent), updates |-> updates,
                   calls |-> depth, cut |-> FALSE, linked |-> <<n>>]

Insert(h, item) == InsertRec(h, item, <<>>, 1)

(***************************************************************************)
(* Traversal: visitInOrder / visitInReverse.  The VisitorFunc of the model *)
(* returns Done on its stop-th call and Continue on every other call       *)
(* (stop = 0: never Done).  log is the sequence of calls made so far,      *)
(* each with the value passed and the signal returned.                     *)
(***************************************************************************)
VisitorFunc(stop, log, v) ==
    LET ret == IF Len(log) + 1 = stop THEN Done ELSE Continue
    IN  [ret |-> ret, log |-> Append(log, [v |-> v, ret |-> ret])]

RECURSIVE visitInOrder(_, _, _, _)
visitInOrder(h, stop, log, subtreeRoot) ==
    IF subtreeRoot = Nil THEN [ret |-> Continue, log |-> log]
    ELSE LET l == visitInOrder(h, stop, log, h.nodes[subtreeRoot].left)
         IN  IF l.ret = Done THEN l
             ELSE LET w == VisitorFunc(stop, l.log, NodeValue(h, subtreeRoot))
                  IN  IF w.ret = Done THEN w
                      ELSE visitInOrder(h, stop, w.log,
                                        h.nodes[subtreeRoot].right)

\* visitInReverse without the test of the right subtree's signal.
visitInReverse_IgnoresDone(h, stop, log, subtreeRoot) ==
    IF subtreeRoot = Nil THEN [ret |-> Continue, log |-> log]
    ELSE LET r == visitInOrder(h, stop, log, h.nodes[subtreeRoot].right)
             w == VisitorFunc(stop, r.log, NodeValue(h, subtreeRoot))
         IN  IF w.ret = Done THEN w
             ELSE visitInOrder(h, stop, w.log, h.nodes[subtreeRoot].left)

visitInReverse(h, stop, log, subtreeRoot) ==
    IF subtreeRoot = Nil THEN [ret |-> Continue, log |-> log]
    ELSE LET r == visitInOrder(h, stop, log, h.nodes[subtreeRoot].right)
         IN  IF r.ret = Done THEN r
             ELSE LET w == VisitorFunc(stop, r.log, NodeValue(h, subtreeRoot))
                  IN  IF w.ret = Done THEN w
                      ELSE visitInOrder(h, stop, w.log,
                                        h.nodes[subtreeRoot].left)

\* Tree.VisitInOrder / Tree.VisitInReverse: the calls the visitor received.
VisitInOrder(h, stop) == visitInOrder(h, stop, <<>>, h.root).log
VisitInReverse(h, stop) == visitInReverse(h, stop, <<>>, h.root).log

(***************************************************************************)
(* Tree.Contains and Tree.Get.                                             *)
(***************************************************************************)
RECURSIVE containsLoop(_, _, _)
containsLoop(h, item, cur) ==
    IF cur = Nil THEN FALSE
    ELSE LET result == Compare(h, item, NodeValue(h, cur))
         IN  IF result < EQ THEN containsLoop(h, item, h.nodes[cur].left)
             ELSE IF result > EQ THEN containsLoop(h, item, h.nodes[cur].right)
             ELSE TRUE

Contains(h, item) == containsLoop(h, item, h.root)

\* Get returns cur.Value() or nil: [ok |-> FALSE] stands for nil.
Get(h, item) ==
    LET f == findNodeAndParent(h, item)
    IN  IF f.found THEN [ok |-> TRUE, v |-> NodeValue(h, f.node)]
        ELSE [ok |-> FALSE, v |-> 0]

(***************************************************************************)
(* Reachability and garbage.  Objects no pointer leads to any more are     *)
(* garbage; the addresses of the live objects carry no meaning beyond      *)
(* pointer equality, so a state keeps the live objects numbered in the     *)
(* order a walk from t.root meets them.                                    *)
(***************************************************************************)
Range(s) == {s[i] : i \in 1..Len(s)}

\* Depth-first walk over left, right and value pointers from t.root.
RECURSIVE walk(_, _, _)
walk(h, stack, seen) ==
    IF stack = <<>> THEN seen
    ELSE LET n == Head(stack)
         IN  IF n = Nil \/ n \in Range(seen) THEN walk(h, Tail(stack), seen)
             ELSE walk(h,
                       <<h.nodes[n].left, h.nodes[n].right,
                         IF h.nodes[n].value.t = "node"
                         THEN h.nodes[n].value.id ELSE Nil>> \o Tail(stack),
                       Append(seen, n))

LiveNodes(h) == walk(h, <<h.root>>, <<>>)

\* The implementation objects the live Nodes point to, in walk order.
RECURSIVE implsOf(_, _, _)
implsOf(h, ns, seen) ==
    IF ns = <<>> THEN seen
    ELSE LET v == h.nodes[Head(ns)].value
         IN  IF v.t = "impl" /\ v.id \notin Range(seen)
             THEN implsOf(h, Tail(ns), Append(seen, v.id))
             ELSE implsOf(h, Tail(ns), seen)

Index(s, x) == CHOOSE i \in 1..Len(s) : s[i] = x

Collect(h) ==
    LET ns == LiveNodes(h)
        is == implsOf(h, ns, <<>>)
        ptr(n) == IF n = Nil THEN Nil ELSE Index(ns, n)
        ref(v) == IF v.t = "node" THEN NodeRef(Index(ns, v.id))
                  ELSE ImplRef(Index(is, v.id))
    IN  [root |-> ptr(h.root),
         nodes |-> [n \in DOMAIN h.nodes |->
                      IF n > Len(ns) THEN NoNode
                      ELSE [left |-> ptr(h.nodes[ns[n]].left),
                            right |-> ptr(h.nodes[ns[n]].right),
                            value |-> ref(h.nodes[ns[n]].value)]],
         impls |-> [i \in DOMAIN h.impls |->
                      IF i > Len(is) THEN NoImpl ELSE h.impls[is[i]]]]

\* A caller's fresh Interface object: placed at an unused address.
FreeImpl(h) == CHOOSE i \in DOMAIN h.impls : h.impls[i] = NoImpl
WithItem(h, c) == [h EXCEPT !.impls[FreeImpl(h)] = c]

(***************************************************************************)
(* Observations used to state the properties.                              *)
(***************************************************************************)
InOrderValues(h) ==
    LET ns == TreeNodes(h) IN [i \in 1..Len(ns) |-> NodeValue(h, ns[i])]

MaxStored(h) ==
    LET S == {h.impls[i].value : i \in DOMAIN h.impls}
    IN  CHOOSE m \in S : \A x \in S : x <= m

(***************************************************************************)
(* The state machine: a caller applies the Tree's operations one at a      *)
(* time.  While a call's result is being looked at, last holds the call:   *)
(* its arguments, what it returned and, for Insert and Remove, the heap it *)
(* started from (pre) and the heap it left (post, same addresses as pre).  *)
(* Contains, Get and the traversals assign nothing: their heap is the      *)
(* state's heap before and after.                                          *)
(***************************************************************************)
TheHeap == Heap(root, nodes, impls)

EmptyHeap ==
    Heap(Nil, [n \in NodeIds |-> NoNode], [i \in ImplIds |-> NoImpl])

NoCall ==
    [op |-> "none", kind |-> "int", key |-> 0, stop |-> 0,
     pre |-> EmptyHeap, post |-> EmptyHeap, item |-> NilRef,
     found |-> FALSE, value |-> 0, log |-> <<>>, updates |-> <<>>,
     calls |-> 0, linked |-> <<>>]

Init ==
    /\ root = Nil
    /\ nodes = [n \in NodeIds |-> NoNode]
    /\ impls = [i \in ImplIds |-> NoImpl]
    /\ last = NoCall

SetHeap(h) ==
    /\ root' = h.root
    /\ nodes' = h.nodes
    /\ impls' = h.impls

Idle == last.op = "none"

\* Insert of an item of one of the kinds with one of the keys.
InsertCall(kinds, keys) ==
    /\ Idle
    /\ \E kind \in kinds, k \in keys :
        LET item == ImplRef(FreeImpl(TheHeap))
            r == Insert(WithItem(TheHeap, Item(kind, k)), item)
            h == Collect(r.heap)
        IN  /\ ~r.cut
            /\ MaxStored(h) \in keys
            /\ SetHeap(h)
            /\ last' = [NoCall EXCEPT !.op = "Insert", !.kind = kind,
                           !.key = k, !.pre = TheHeap, !.post = r.heap,
                           !.item = item, !.updates = r.updates,
                           !.calls = r.calls, !.linked = r.linked]

\* Insert of an item of any kind.
CallInsert == InsertCall(Kinds, Keys)

RemoveCall(keys) ==
    /\ Idle
    /\ \E k \in keys :
        LET item == ImplRef(FreeImpl(TheHeap))
            r == Remove(WithItem(TheHeap, IntItem(k)), item)
        IN  /\ SetHeap(Collect(r))
            /\ last' = [NoCall EXCEPT !.op = "Remove", !.key = k,
                           !.pre = TheHeap, !.post = r, !.item = item]

CallRemove == RemoveCall(Keys)

CallContains ==
    /\ Idle
    /\ \E k \in Keys :
        LET item == ImplRef(FreeImpl(TheHeap))
            h0 == WithItem(TheHeap, IntItem(k))
        IN  /\ last' = [NoCall EXCEPT !.op = "Contains", !.key = k,
                           !.item = item, !.found = Contains(h0, item)]
            /\ UNCHANGED <<root, nodes, impls>>

CallGet ==
    /\ Idle
    /\ \E k \in Keys :
        LET item == ImplRef(FreeImpl(TheHeap))
            h0 == WithItem(TheHeap, IntItem(k))
            g == Get(h0, item)
        IN  /\ last' = [NoCall EXCEPT !.op = "Get", !.key = k,
                           !.item = item, !.found = g.ok, !.value = g.v]
            /\ UNCHANGED <<root, nodes, impls>>

CallVisitInOrder ==
    /\ Idle
    /\ \E stop \in 0..MaxNodes :
        /\ last' = [NoCall EXCEPT !.op = "VisitInOrder", !.stop = stop,
                       !.log = VisitInOrder(TheHeap, stop)]
        /\ UNCHANGED <<root, nodes, impls>>

CallVisitInReverse ==
    /\ Idle
    /\ \E stop \in 0..MaxNodes :
        /\ last' = [NoCall EXCEPT !.op = "VisitInReverse", !.stop = stop,
                       !.log = VisitInReverse(TheHeap, stop)]
        /\ UNCHANGED <<root, nodes, impls>>

\* The call has returned and the caller has dropped its result.
Return ==
    /\ ~Idle
    /\ last' = NoCall
    /\ UNCHANGED <<root, nodes, impls>>

Next ==
    \/ CallInsert
    \/ CallRemove
    \/ CallContains
    \/ CallGet
    \/ CallVisitInOrder
    \/ CallVisitInReverse
    \/ Return

Spec == Init /\ [][Next]_vars

(***************************************************************************)
(* The calls that write the tree, with items of every kind.                *)
(***************************************************************************)
NextWrites ==
    \/ CallInsert
    \/ CallRemove
    \/ Return

SpecWrites == Init /\ [][NextWrites]_vars

(***************************************************************************)
(* The tree under Int items only: Insert and Remove on trees of up to      *)
(* MaxOrdered Nodes.                                                       *)
(***************************************************************************)
OrderedKinds == {"int"}
\* As many keys as there are Nodes.
OrderedKeys == 0..(MaxOrdered - 1)

InitOrdered ==
    /\ root = Nil
    /\ nodes = [n \in 1..MaxOrdered |-> NoNode]
    /\ impls = [i \in 1..(MaxOrdered + 1) |-> NoImpl]
    /\ last = NoCall

CallInsertOrdered == InsertCall(OrderedKinds, OrderedKeys)

CallRemoveOrdered == RemoveCall(OrderedKeys)

NextOrdered ==
    \/ CallInsertOrdered
    \/ CallRemoveOrdered
    \/ Return

SpecOrdered == InitOrdered /\ [][NextOrdered]_vars

(***************************************************************************)
(* The wrappers on their own: a caller constructs a wrapper with Generic   *)
(* or Int and calls its Compare and Update.  The wrapper is impls[1]; last *)
(* holds the latest call with its arguments and what it returned.          *)
(***************************************************************************)
Wrapper == ImplRef(1)

NoItemCall ==
    [op |-> "none", ctor |-> "none", comparer |-> "nil", updater |-> "nil",
     panic |-> FALSE, arg |-> 0, before |-> 0, result |-> 0]

InitItems ==
    /\ root = Nil
    /\ nodes = [n \in NodeIds |-> NoNode]
    /\ impls = [i \in ImplIds |-> NoImpl]
    /\ last = NoItemCall

HasWrapper == impls[1].typ # "none"

CallGeneric ==
    \E value \in Ints, comparer \in {"nil", "sub"}, updater \in {"nil", "inc"} :
        LET g == Generic(value, comparer, updater)
        IN  /\ impls' = [impls EXCEPT ![1] = g.impl]
            /\ last' = [NoItemCall EXCEPT !.op = "Generic", !.ctor = "Generic",
                           !.comparer = comparer, !.updater = updater,
                           !.panic = g.panic, !.arg = value]
            /\ UNCHANGED <<root, nodes>>

CallInt ==
    \E value \in Ints :
        /\ impls' = [impls EXCEPT ![1] = IntItem(value)]
        /\ last' = [NoItemCall EXCEPT !.op = "Int", !.ctor = "Int",
                       !.comparer = "sub", !.arg = value]
        /\ UNCHANGED <<root, nodes>>

CallCompare ==
    /\ HasWrapper
    /\ \E to \in Ints :
        /\ last' = [last EXCEPT !.op = "Compare", !.arg = to,
                       !.before = impls[1].value,
                       !.result = Compare(TheHeap, Wrapper, to)]
        /\ UNCHANGED <<root, nodes, impls>>

CallUpdate ==
    /\ HasWrapper
    /\ \E with \in Ints :
        /\ impls' = Update(TheHeap, Wrapper, with).impls
        /\ last' = [last EXCEPT !.op = "Update", !.arg = with,
                       !.before = impls[1].value, !.result = 0]
        /\ UNCHANGED <<root, nodes>>

NextItems ==
    \/ CallGeneric
    \/ CallInt
    \/ CallCompare
    \/ CallUpdate

SpecItems == InitItems /\ [][NextItems]_vars

(***************************************************************************)
(* Properties.                                                             *)
(***************************************************************************)
Ascending(s) == \A i, j \in 1..Len(s) : i < j => s[i] < s[j]

Reverse(s) == [i \in 1..Len(s) |-> s[Len(s) + 1 - i]]

Count(s, x) == Cardinality({i \in 1..Len(s) : s[i] = x})

\* The values stored in the Nodes linked from t.root, as a set.
Stored(h) == Range(InOrderValues(h))

\* The values a traversal passed to the visitor.
Visited(log) == [i \in 1..Len(log) |-> log[i].v]

\* The heap the latest call started from, with its argument in place, and
\* what findNodeAndParent found there for that argument.
PreCall == WithItem(last.pre, Item(last.kind, last.key))
PreFind == findNodeAndParent(PreCall, last.item)

\* A lookup with a fresh Int(k) probe.
ContainsKey(h, k) == Contains(WithItem(h, IntItem(k)), ImplRef(FreeImpl(h)))
GetKey(h, k) == Get(WithItem(h, IntItem(k)), ImplRef(FreeImpl(h)))

\* left/right links and root are the same in g as in h.
SameLinks(h, g) ==
    /\ g.root = h.root
    /\ \A n \in NodeIds :
          /\ g.nodes[n].left = h.nodes[n].left
          /\ g.nodes[n].right = h.nodes[n].right

\* C1: between operations the tree is a strict binary search tree: the
\* in-order traversal of the stored values is strictly ascending.
C1_OrderingInvariant == Ascending(InOrderValues(TheHeap))

\* C2: after Remove(x) on a tree that stores x, Contains(x) is false, every
\* other value stored before is stored exactly once, and the in-order
\* traversal is ascending.
C2_RemoveCorrect ==
    (last.op = "Remove" /\ last.key \in Stored(last.pre)) =>
        /\ ~ContainsKey(TheHeap, last.key)
        /\ \A v \in Stored(last.pre) \ {last.key} :
              Count(InOrderValues(TheHeap), v) = 1
        /\ Ascending(InOrderValues(TheHeap))

\* The value the matched Node holds once its Update has run.
UpdatedForm ==
    LET c == PreCall.impls[Target(PreCall, NodeRef(PreFind.node))]
    IN  ImplUpdate(c, last.key).value

MatchedValue == NodeValue(PreCall, PreFind.node)

\* Insert matched a Node and its Update changed the Node's key.
KeyChangingInsert ==
    /\ last.op = "Insert"
    /\ PreFind.found
    /\ UpdatedForm # MatchedValue

\* C3: when Insert matches a Node and the update changes its key, the tree
\* afterwards stores the updated value, in ascending position, and every
\* other value stored before is still stored.  Stated for ordered trees in
\* which the updated key meets no other stored value.
C3_UpdateRepositions ==
    (/\ KeyChangingInsert
     /\ Ascending(InOrderValues(last.pre))
     /\ UpdatedForm \notin Stored(last.pre)) =>
        /\ UpdatedForm \in Stored(TheHeap)
        /\ Ascending(InOrderValues(TheHeap))
        /\ \A v \in Stored(last.pre) \ {MatchedValue} : v \in Stored(TheHeap)

\* C4: with a Continue-only visitor VisitInReverse visits the values in the
\* reverse of the order VisitInOrder visits them.
C4_ReverseIsReverse ==
    (last.op = "VisitInReverse" /\ last.stop = 0) =>
        Visited(last.log) = Reverse(Visited(VisitInOrder(TheHeap, 0)))

\* C5: in both traversals no value is visited after the visitor returned
\* Done; a visitor that returns Done on its first call is called exactly
\* once on a non-empty tree, and never on an empty tree.
C5_StopsAtDone ==
    last.op \in {"VisitInOrder", "VisitInReverse"} =>
        /\ \A i \in 1..Len(last.log) :
              last.log[i].ret = Done => i = Len(last.log)
        /\ (last.stop = 1 /\ root # Nil) => Len(last.log) = 1
        /\ root = Nil => Len(last.log) = 0

\* C5 witness: a reverse traversal of a three-Node tree cut short by Done.
C5_Witness ==
    /\ last.op = "VisitInReverse"
    /\ last.stop = 1
    /\ Len(TreeNodes(TheHeap)) = 3
    /\ Len(last.log) = 1
    /\ last.log[1].ret = Done

\* C6: Contains(p) is true exactly when a stored value equals p, and Get(p)
\* returns that value when there is one and nil otherwise.
C6_LookupCorrect ==
    /\ last.op = "Contains" => (last.found <=> last.key \in Stored(TheHeap))
    /\ last.op = "Get" =>
          /\ last.found <=> last.key \in Stored(TheHeap)
          /\ last.found => last.value = last.key

\* C7: after Insert(v), Get(v) returns v when no equal value was stored
\* before, and Get of the updated form of the equal stored value returns
\* that updated form otherwise.  Stated for the case where the updated form
\* meets no other stored value (when it does, the two are merged by a
\* further Update, as TestTreeInsert_ChainOfUpdates expects).
C7_RoundTrip ==
    last.op = "Insert" =>
        IF last.key \in Stored(last.pre) /\ PreFind.found
        THEN UpdatedForm \notin Stored(last.pre) \ {MatchedValue} =>
                GetKey(TheHeap, UpdatedForm) = [ok |-> TRUE, v |-> UpdatedForm]
        ELSE last.key \notin Stored(last.pre) =>
                GetKey(TheHeap, last.key) = [ok |-> TRUE, v |-> last.key]

\* No stored value and no argument carries an updater.
NoOpUpdaters ==
    /\ last.kind \in {"int", "custom"}
    /\ \A i \in ImplIds : last.pre.impls[i].upd = "nil"

NewNodeOf == NewNode(PreCall)

\* C9: an Insert that matches nothing attaches the new Node in the empty
\* slot where the search ended (left of the located parent when the item
\* compares negative against it, right when positive), keeps every
\* existing link, and adds exactly one stored value.
C9_AttachWhereSearchEnded ==
    (last.op = "Insert" /\ ~PreFind.found) =>
        /\ Len(TreeNodes(last.post)) = Len(TreeNodes(last.pre)) + 1
        /\ \A n \in Range(TreeNodes(last.pre)) :
              /\ last.pre.nodes[n].left # Nil =>
                    last.post.nodes[n].left = last.pre.nodes[n].left
              /\ last.pre.nodes[n].right # Nil =>
                    last.post.nodes[n].right = last.pre.nodes[n].right
        /\ PreFind.parent # Nil =>
              IF Compare(PreCall, last.item,
                         NodeValue(PreCall, PreFind.parent)) < EQ
              THEN last.post.nodes[PreFind.parent].left = NewNodeOf
              ELSE last.post.nodes[PreFind.parent].right = NewNodeOf

\* C10: when Insert matches a Node and the update leaves its key EQ to the
\* value before, Update ran exactly once, on the matched Node, with the
\* incoming item's value, and root, links and Node count are unchanged.
C10_UpdateInPlace ==
    (last.op = "Insert" /\ PreFind.found /\ UpdatedForm = MatchedValue) =>
        /\ last.updates = <<[node |-> PreFind.node, with |-> last.key]>>
        /\ SameLinks(last.pre, last.post)
        /\ TreeNodes(last.post) = TreeNodes(last.pre)

\* C10 witness: in a tree of three Nodes an Insert matched a Node below the
\* root, whose Update left the key as it was.
C10_Witness ==
    /\ last.op = "Insert"
    /\ PreFind.found
    /\ PreFind.parent # Nil
    /\ Len(TreeNodes(last.pre)) = 3
    /\ UpdatedForm = MatchedValue
    /\ Len(last.updates) = 1

\* C11: no two values stored in the tree compare EQ to each other.
C11_NoEqualValues ==
    \A v \in Stored(TheHeap) : Count(InOrderValues(TheHeap), v) = 1

\* C11, the cascade: when a key-changing update makes the matched value
\* equal to another stored value, a further Update is invoked and the tree
\* ends with fewer entries, the re-inserted item not being stored apart.
C11_CascadeMerges ==
    (/\ KeyChangingInsert
     /\ UpdatedForm \in Stored(last.pre) \ {MatchedValue}) =>
        /\ Len(last.updates) >= 2
        /\ Len(InOrderValues(TheHeap)) < Len(InOrderValues(last.pre))

\* C11, the chain of updates: 0 inserted again into {0, .., n - 1}, each
\* with the increment-by-one updater, leaves the single value n.
C11_ChainOfUpdates ==
    (/\ last.op = "Insert" /\ last.key = 0
     /\ Stored(last.pre) = 0..(Len(TreeNodes(last.pre)) - 1)
     /\ \A n \in Range(TreeNodes(last.pre)) :
            last.pre.impls[Target(last.pre, NodeRef(n))].upd = "inc") =>
        InOrderValues(TheHeap) = <<Len(TreeNodes(last.pre))>>

\* The calls that only read the tree.
ReadOps == {"Contains", "Get", "VisitInOrder", "VisitInReverse"}

\* The step is a Remove whose probe equals no stored value.
RemoveOfAbsent ==
    /\ last'.op = "Remove"
    /\ last'.key \notin Stored(TheHeap)

\* C12: Contains, Get, VisitInOrder, VisitInReverse and a Remove whose probe
\* equals no stored value leave the root, every Node's links and every
\* stored value as they were; such a Remove returns the tree it was given.
C12_Frame ==
    [][/\ last'.op \in ReadOps => UNCHANGED <<root, nodes, impls>>
       /\ RemoveOfAbsent =>
            /\ UNCHANGED <<root, nodes, impls>>
            /\ last'.post = WithItem(TheHeap, IntItem(last'.key))]_vars

\* C12 witness: Remove has returned from a tree of three Nodes none of
\* which holds the probe's value.
C12_Witness ==
    /\ last.op = "Remove"
    /\ last.key \notin Stored(last.pre)
    /\ Len(TreeNodes(last.pre)) = 3
    /\ TheHeap = last.pre

\* C11 chain reached: two updates have run, each changing a key.
C11_ChainReached ==
    /\ last.op = "Insert" /\ last.key = 0
    /\ Stored(last.pre) = {0, 1}
    /\ Len(last.updates) = 2
    /\ InOrderValues(TheHeap) = <<2>>

\* C13: Generic panics exactly when the comparer is nil and then returns no
\* wrapper; with a comparer it returns the wrapper of the value, and Update
\* of a wrapper built with a nil updater leaves the wrapped value as it was.
C13_GenericPanicsOnNilComparer ==
    /\ last.op = "Generic" =>
        /\ last.panic <=> last.comparer = "nil"
        /\ last.panic => ~HasWrapper
        /\ ~last.panic => impls[1] = InterfaceImpl(last.arg, last.updater)
    /\ (last.op = "Update" /\ last.updater = "nil") =>
        impls[1].value = last.before

\* C13 witness: Generic was called with a nil comparer and panicked.
C13_Witness ==
    /\ last.op = "Generic"
    /\ last.comparer = "nil"
    /\ last.panic

\* C13, the other case reached: Update of a wrapper without updater, with
\* an argument other than the wrapped value.
C13_NoOpReached ==
    /\ last.op = "Update"
    /\ last.ctor = "Generic" /\ last.updater = "nil"
    /\ last.arg # last.before

\* C14: for all machine integers a and b, Int(a).Compare(b) is LT exactly
\* when a < b, EQ exactly when a = b and GT exactly when a > b.
C14_IntCompare ==
    (last.op = "Compare" /\ last.ctor = "Int") =>
        /\ last.result = LT <=> last.before < last.arg
        /\ last.result = EQ <=> last.before = last.arg
        /\ last.result = GT <=> last.before > last.arg

\* C14 without the pairs whose difference leaves the machine integers.
C14_IntCompareInRange ==
    (/\ last.op = "Compare" /\ last.ctor = "Int"
     /\ last.before - last.arg \in Ints) =>
        /\ last.result = LT <=> last.before < last.arg
        /\ last.result = EQ <=> last.before = last.arg
        /\ last.result = GT <=> last.before > last.arg

\* The latest call is a Remove whose target Node has two children.
RemoveOfTwoChildren ==
    /\ last.op = "Remove"
    /\ PreFind.found
    /\ PreCall.nodes[PreFind.node].left # Nil
    /\ PreCall.nodes[PreFind.node].right # Nil

\* The in-order successor of the target and the successor's parent.
Successor ==
    succLoop(PreCall, PreCall.nodes[PreFind.node].right, PreFind.node)

\* The Nodes of the subtree below n, n included.
SubtreeNodes(h, n) == Range(InOrderNodes(h, n, Len(h.nodes) + 1))

\* C15: Remove of a Node with two children keeps the Node in place and gives
\* it the value of its in-order successor; the successor Node leaves the
\* tree and its right child takes its slot in the successor's parent (the
\* target's right link when the successor is the target's right child);
\* the target's left subtree and the link from its parent are unchanged.
C15_RemoveTwoChildren ==
    RemoveOfTwoChildren =>
        LET t == PreFind.node
            p == PreFind.parent
            s == Successor
            pre == PreCall
            post == last.post
        IN  /\ post.nodes[t].value = pre.nodes[s.succ].value
            /\ s.succ \notin Range(TreeNodes(post))
            /\ IF s.parent = t
               THEN post.nodes[t].right = pre.nodes[s.succ].right
               ELSE /\ post.nodes[s.parent].left = pre.nodes[s.succ].right
                    /\ post.nodes[t].right = pre.nodes[t].right
            /\ post.nodes[t].left = pre.nodes[t].left
            /\ \A n \in SubtreeNodes(pre, pre.nodes[t].left) :
                   post.nodes[n] = pre.nodes[n]
            /\ IF p = Nil THEN post.root = t /\ pre.root = t
               ELSE post.nodes[p] = pre.nodes[p] /\ post.root = pre.root

\* C15 witness: the target had two children and its successor, not the
\* target's right child, had a right child of its own.
C15_Witness ==
    /\ RemoveOfTwoChildren
    /\ Successor.parent # PreFind.node
    /\ PreCall.nodes[Successor.succ].right # Nil
    /\ last.post.nodes[Successor.parent].left =
           PreCall.nodes[Successor.succ].right

\* C15, the other case reached: the successor was the target's right child.
C15_ImmediateReached ==
    /\ RemoveOfTwoChildren
    /\ Successor.parent = PreFind.node
    /\ PreCall.nodes[Successor.succ].right # Nil

\* Insert of item (kind, k) into the state's tree, whatever it returns.
InsertOf(kind, k) ==
    Insert(WithItem(TheHeap, Item(kind, k)), ImplRef(FreeImpl(TheHeap)))

\* The numbers decrease strictly along the sequence.
Decreasing(s) == \A i, j \in 1..Len(s) : i < j => s[i] > s[j]

\* C16: every Insert returns; each t.Insert(cur) starts on a tree with
\* fewer linked Nodes than the call that made it, and the nested Insert
\* calls number at most the Nodes of the tree plus one.
C16_InsertTerminates ==
    /\ Idle => \A kind \in Kinds, k \in Keys :
        LET r == InsertOf(kind, k)
        IN  /\ r.calls <= Len(TreeNodes(TheHeap)) + 1
            /\ Len(r.linked) = r.calls
            /\ Decreasing(r.linked)
    /\ last.op = "Insert" =>
        /\ last.calls <= Len(TreeNodes(last.pre)) + 1
        /\ Decreasing(last.linked)

\* C16 witness: an Insert into a tree of two Nodes made three nested
\* calls, an update changing the key at each Node.
C16_Witness ==
    /\ last.op = "Insert"
    /\ Len(TreeNodes(last.pre)) = 2
    /\ last.calls = 3
    /\ Len(last.updates) = 2
    /\ last.linked = <<2, 1, 0>>

\* The links of h that lead to the Node n, from the Nodes linked in the tree.
LinksTo(h, n) ==
    {<<p, side>> \in Range(TreeNodes(h)) \X {"left", "right"} :
        IF side = "left" THEN h.nodes[p].left = n ELSE h.nodes[p].right = n}

\* The Nodes reachable from the root of h form a tree.
IsTree(h) ==
    LET ns == TreeNodes(h)
    IN  /\ \A i, j \in 1..Len(ns) : i # j => ns[i] # ns[j]
        /\ Len(ns) <= Len(h.nodes)
        /\ \A n \in Range(ns) :
               Cardinality(LinksTo(h, n)) = IF n = h.root THEN 0 ELSE 1

\* C17: after every Insert and Remove the Nodes reachable from the root
\* through left/right form a tree: no cycle, no Node the child of two Nodes
\* or both children of one, and the root no Node's child.
C17_LinksFormATree ==
    /\ IsTree(TheHeap)
    /\ last.op \in {"Insert", "Remove"} => IsTree(last.post)

\* C17 witness: an Insert whose update removed and re-inserted a Node has
\* left a tree of at least two Nodes.
C17_Witness ==
    /\ last.op = "Insert"
    /\ last.calls >= 2
    /\ Len(TreeNodes(last.post)) >= 2
    /\ IsTree(last.post)

====
